---- MODULE Spec2Model ----
(***************************************************************************)
(* Model of fiveletterwords.cpp: the search for five five-letter words     *)
(* that use 25 distinct letters.  main() filters the word list into        *)
(* per-pivot-letter buckets of letter bitmaps, concatenates the buckets    *)
(* into one flat index, and runs an OpenMP "parallel for" over the index   *)
(* whose only shared write is the critical-section append to matches.      *)
(*                                                                         *)
(* A uint32_t bitmap is modelled as the set of its set bit positions, a    *)
(* subset of 0..31: & is \cap, | is \cup, popcount is Cardinality.         *)
(* A std::vector is a sequence; the code's 0-based index idx addresses     *)
(* element idx + 1 of the sequence (operator At).                          *)
(***************************************************************************)
EXTENDS Integers, Sequences, FiniteSets, TLC

VARIABLES
  shift_mode,            \* what the build makes of a shift count outside 0..31
  nthreads,              \* size of the OpenMP team
  word_list,             \* the lines read from the file
  pos,                   \* position of the range-for over word_list (0-based)
  letter_bitmaps,
  word_bitmaps_letters,
  unique_words_letters,
  number_of_words,
  word_bitmaps,
  unique_words,
  word_bitmaps_boundaries,
  matches,
  phase,                 \* where main() is: "filter", "combine", "search", "done"
  next_i,                \* next undispatched iteration of the parallel for
  lock,                  \* owner of the omp critical region, 0 when free
  pc, i, j, a, b, c,     \* per thread: position and loop variables
  candidate_bitmaps,     \* per thread (private clause)
  candidate_indices,     \* per thread (private clause)
  match_indices,         \* history: for each match, its index 5-tuple and its thread
  oob,                   \* history: some vector was read at or past its size
  scans,                 \* history: the candidate list found for each pair (i, j) scanned
  run,                   \* 1 for the run on the given list, 2 for the run on a permutation
  first_list,            \* run 2 only: the word list of run 1
  first_matches          \* run 2 only: the matches of run 1

vars == <<shift_mode, nthreads, word_list, pos, letter_bitmaps,
          word_bitmaps_letters, unique_words_letters, number_of_words,
          word_bitmaps, unique_words, word_bitmaps_boundaries, matches, phase,
          next_i, lock, pc, i, j, a, b, c, candidate_bitmaps,
          candidate_indices, match_indices, oob, scans,
          run, first_list, first_matches>>

----------------------------------------------------------------------------
(* Bounds of the model *)

\* Longest word list of the partition-only specification.
MaxWords == 3

\* Largest OpenMP team.
MaxThreads == 2

\* Longest word list of the whole-program specifications.
MaxSearchWords == 6

\* Longest word list of the whole-program specification with fairness.
MaxFairWords == 5

----------------------------------------------------------------------------
(* Characters, words and bitmaps *)

WORD_LENGTH == 5

Lower == <<"a", "b", "c", "d", "e", "f", "g", "h", "i", "j", "k", "l", "m",
           "n", "o", "p", "q", "r", "s", "t", "u", "v", "w", "x", "y", "z">>

\* The character code of a char (ASCII): 'a' is 97, '{' is 123, 'A' is 65.
Ord(ch) ==
  IF \E k \in 1..26 : Lower[k] = ch
  THEN 96 + (CHOOSE k \in 1..26 : Lower[k] = ch)
  ELSE IF ch = "{" THEN 123 ELSE 65

\* A shift count outside 0..31 is undefined behaviour; a build either takes the
\* count modulo 32 (x86 shl) or yields 0 (a shifter that saturates).
ShiftModes == {"wrap", "zero"}

\* 1 << n, as a uint32_t.
ShiftOne(n, mode) ==
  IF n \in 0..31 THEN {n}
  ELSE IF mode = "wrap" THEN {n % 32} ELSE {}

\* std::accumulate over the word of bitmap |= 1 << (c - 'a').
RECURSIVE AccumulateFrom(_, _, _, _)
AccumulateFrom(word, p, bitmap, mode) ==
  IF p > Len(word) THEN bitmap
  ELSE AccumulateFrom(word, p + 1,
                      bitmap \cup ShiftOne(Ord(word[p]) - Ord("a"), mode), mode)

Bitmap(word, mode) == AccumulateFrom(word, 1, {}, mode)

letters == <<"e", "t", "a", "o", "i", "n", "s", "h", "r", "l", "d", "u">>

\* 0xffff
CatchAll == 0..15

\* letter_bitmaps as built before the filter loop.
InitialLetterBitmaps(mode) ==
  [k \in 1..Len(letters) |-> ShiftOne(Ord(letters[k]) - Ord("a"), mode)]
    \o <<CatchAll>>

NumLists == Len(letters) + 1

\* v[idx] for a 0-based idx; a read past the end is flagged by the caller.
At(v, idx) == IF idx + 1 \in DOMAIN v THEN v[idx + 1] ELSE {}

InRange(v, idx) == idx >= 0 /\ idx < Len(v)

\* std::find(v.begin(), v.end(), x) != v.end()
Found(v, x) == \E k \in DOMAIN v : v[k] = x

----------------------------------------------------------------------------
(* Inputs *)

W(c1, c2, c3, c4, c5) == <<c1, c2, c3, c4, c5>>

doves == W("d", "o", "v", "e", "s")
doxes == W("d", "o", "x", "e", "s")
devos == W("d", "e", "v", "o", "s")
vibex == W("v", "i", "b", "e", "x")
waltz == W("w", "a", "l", "t", "z")
quirk == W("q", "u", "i", "r", "k")
nymph == W("n", "y", "m", "p", "h")
gymph == W("g", "y", "m", "p", "h")
bcfgj == W("b", "c", "f", "g", "j")
vwxyz == W("v", "w", "x", "y", "z")
hello == W("h", "e", "l", "l", "o")
abcde == W("a", "b", "c", "d", "e")
Abcde == W("A", "b", "c", "d", "e")
bc_fg == W("b", "c", "{", "f", "g")
abc == <<"a", "b", "c">>

\* Words of the partition-only specification: in several buckets, anagrams,
\* a repeated letter, a wrong length, characters outside 'a'..'z'.
Dictionary == {doves, devos, vibex, waltz, bcfgj, vwxyz, hello, abcde, Abcde,
               bc_fg, abc}

RECURSIVE SeqsUpTo(_, _)
SeqsUpTo(S, n) ==
  IF n = 0 THEN {<<>>}
  ELSE LET shorter == SeqsUpTo(S, n - 1)
       IN shorter \cup {Append(s, x) : s \in {t \in shorter : Len(t) = n - 1}, x \in S}

\* Words of the whole-program specifications: doves (or doxes), waltz, quirk,
\* nymph and bcfgj use 25 letters; gymph shares letters with nymph and bcfgj.
Corpus == <<doves, waltz, quirk, nymph, bcfgj, doxes, gymph>>

\* Words of the specification that runs the program twice: devos is an
\* anagram of doves.
AnagramCorpus == <<doves, waltz, quirk, nymph, bcfgj, doxes, devos>>

\* The order-preserving sub-lists of s.
RECURSIVE SubLists(_)
SubLists(s) ==
  IF s = <<>> THEN {<<>>}
  ELSE LET rest == SubLists(Tail(s))
       IN rest \cup {<<Head(s)>> \o t : t \in rest}

SearchLists == {s \in SubLists(Corpus) : Len(s) <= MaxSearchWords}

AnagramLists == {s \in SubLists(AnagramCorpus) : Len(s) <= MaxSearchWords}

----------------------------------------------------------------------------
(* main(), up to the parallel loop *)

EmptyLists == [k \in 1..NumLists |-> <<>>]

Start(list, mode, team, r, list1, matches1) ==
  /\ shift_mode = mode
  /\ nthreads = team
  /\ word_list = list
  /\ pos = 0
  /\ letter_bitmaps = InitialLetterBitmaps(mode)
  /\ word_bitmaps_letters = EmptyLists
  /\ unique_words_letters = EmptyLists
  /\ number_of_words = 0
  /\ word_bitmaps = <<>>
  /\ unique_words = <<>>
  /\ word_bitmaps_boundaries = <<>>
  /\ matches = <<>>
  /\ phase = "filter"
  /\ next_i = 0
  /\ lock = 0
  /\ pc = [t \in 1..team |-> "idle"]
  /\ i = [t \in 1..team |-> 0]
  /\ j = [t \in 1..team |-> 0]
  /\ a = [t \in 1..team |-> 0]
  /\ b = [t \in 1..team |-> 0]
  /\ c = [t \in 1..team |-> 0]
  /\ candidate_bitmaps = [t \in 1..team |-> <<>>]
  /\ candidate_indices = [t \in 1..team |-> <<>>]
  /\ match_indices = <<>>
  /\ oob = FALSE
  /\ scans = {}
  /\ run = r
  /\ first_list = list1
  /\ first_matches = matches1

\* The list a word with this bitmap goes to: the first whose letter bitmap
\* meets it (the break at the end of the if), 0 when the for loop finds none.
FirstList(bitmap, lbs) ==
  IF \E k \in 1..Len(lbs) : bitmap \cap lbs[k] # {}
  THEN CHOOSE k \in 1..Len(lbs) :
         /\ bitmap \cap lbs[k] # {}
         /\ \A m \in 1..(k - 1) : bitmap \cap lbs[m] = {}
  ELSE 0

\* The test of the word's length.
LengthOk(word) == Len(word) = WORD_LENGTH

\* The test on the number of bits set in the bitmap.
BitcountOk(bitmap) == Cardinality(bitmap) = WORD_LENGTH

UnseenAlways(bitmaps, bitmap) == TRUE

\* The test that the list has not seen the bitmap.
Unseen(bitmaps, bitmap) == ~Found(bitmaps, bitmap)

\* One iteration of the range-for over word_list.
FilterWord ==
  /\ phase = "filter"
  /\ pos < Len(word_list)
  /\ LET word == word_list[pos + 1]
         bitmap == Bitmap(word, shift_mode)
         k == FirstList(bitmap, letter_bitmaps)
     IN IF LengthOk(word) /\ BitcountOk(bitmap) /\ k # 0
           /\ Unseen(word_bitmaps_letters[k], bitmap)
        THEN /\ word_bitmaps_letters' =
                  [word_bitmaps_letters EXCEPT ![k] = Append(@, bitmap)]
             /\ unique_words_letters' =
                  [unique_words_letters EXCEPT ![k] = Append(@, word)]
        ELSE UNCHANGED <<word_bitmaps_letters, unique_words_letters>>
  /\ pos' = pos + 1
  /\ UNCHANGED <<shift_mode, nthreads, word_list, letter_bitmaps,
                 number_of_words, word_bitmaps, unique_words,
                 word_bitmaps_boundaries, matches, phase, next_i, lock, pc, i,
                 j, a, b, c, candidate_bitmaps, candidate_indices,
                 match_indices, oob, scans, run, first_list,
                 first_matches>>

\* The range-for over word_list ends.
FilterDone ==
  /\ phase = "filter"
  /\ pos >= Len(word_list)
  /\ phase' = "combine"
  /\ UNCHANGED <<shift_mode, nthreads, word_list, pos, letter_bitmaps,
                 word_bitmaps_letters, unique_words_letters, number_of_words,
                 word_bitmaps, unique_words, word_bitmaps_boundaries, matches,
                 next_i, lock, pc, i, j, a, b, c, candidate_bitmaps,
                 candidate_indices, match_indices, oob, scans, run,
                 first_list, first_matches>>

\* The lists of a vector of lists, inserted one after the other.
RECURSIVE Concat(_, _)
Concat(lists, upto) ==
  IF upto = 0 THEN <<>> ELSE Concat(lists, upto - 1) \o lists[upto]

\* word_bitmaps.size() pushed before each list is inserted, and once after.
Boundaries(lists) == [k \in 1..(Len(lists) + 1) |-> Len(Concat(lists, k - 1))]

ResetLastMissing(lbs) == lbs

\* The catch-all's letter bitmap is reset to 0 for the search.
ResetLast(lbs) == [lbs EXCEPT ![Len(lbs)] = {}]

FirstIterationOne == 0 + 1

\* The first iteration of the parallel for.
FirstIteration == 0

\* number_of_words, the combined vectors with their boundaries, the reset of
\* the last letter bitmap; then the parallel region starts.
Combine ==
  /\ phase = "combine"
  /\ number_of_words' = Len(Concat(word_bitmaps_letters, NumLists))
  /\ word_bitmaps' = Concat(word_bitmaps_letters, NumLists)
  /\ unique_words' = Concat(unique_words_letters, NumLists)
  /\ word_bitmaps_boundaries' = Boundaries(word_bitmaps_letters)
  /\ letter_bitmaps' = ResetLast(letter_bitmaps)
  /\ phase' = "search"
  /\ pc' = [t \in 1..nthreads |-> "get_i"]
  /\ next_i' = FirstIteration
  /\ UNCHANGED <<shift_mode, nthreads, word_list, pos, word_bitmaps_letters,
                 unique_words_letters, matches, lock, i, j, a, b, c,
                 candidate_bitmaps, candidate_indices, match_indices,
                 oob, scans, run, first_list, first_matches>>

----------------------------------------------------------------------------
(* The parallel for: one thread's steps *)

Max(x, y) == IF x >= y THEN x ELSE y

\* The indices lo, lo + 1, ..., hi - 1 in order.
Range(lo, hi) == [x \in 1..Max(hi - lo, 0) |-> lo + x - 1]

\* Whether the section of a letter is searched: its letter is not in used_ij.
SectionOpen(letter_bitmap, used) == letter_bitmap \cap used = {}

ScanStartAtBoundary(jj, boundary) == boundary

\* Where the scan of a section starts.
ScanStart(jj, boundary) == Max(jj + 1, boundary)

\* The indices k the inner for visits in section index (0-based).
Scanned(index, used, jj) ==
  IF SectionOpen(At(letter_bitmaps, index), used)
  THEN Range(ScanStart(jj, At(word_bitmaps_boundaries, index)),
             At(word_bitmaps_boundaries, index + 1))
  ELSE <<>>

\* Whether word k is pushed as a candidate.
IsCandidate(used, k) == used \cap At(word_bitmaps, k) = {}

\* candidate_indices after the sections 0 .. upto - 1 have been scanned.
RECURSIVE Candidates(_, _, _)
Candidates(upto, used, jj) ==
  IF upto = 0 THEN <<>>
  ELSE Candidates(upto - 1, used, jj)
         \o SelectSeq(Scanned(upto - 1, used, jj),
                      LAMBDA k : IsCandidate(used, k))

\* Every index of word_bitmaps the candidate scan reads.
RECURSIVE AllScanned(_, _, _)
AllScanned(upto, used, jj) ==
  IF upto = 0 THEN <<>>
  ELSE AllScanned(upto - 1, used, jj) \o Scanned(upto - 1, used, jj)

NumSections == Len(word_bitmaps_boundaries) - 1

used_i(ii) == At(word_bitmaps, ii)
used_ij(ii, jj) == used_i(ii) \cup At(word_bitmaps, jj)

\* The loop test of the parallel for.
MoreWork(n) == n < number_of_words

\* The loop test of the for over j.
MoreJ(jj) == jj < number_of_words

TooFewOrEqual(num) == num <= WORD_LENGTH - 2

\* The early exit on the number of candidates.
TooFew(num) == num < WORD_LENGTH - 2

\* The test that skips a word sharing a letter with the words taken so far.
Shares(used, bitmap) == used \cap bitmap # {}

CriticalAlwaysFree(owner) == TRUE

\* Whether a thread may enter the critical region.
CriticalFree(owner) == owner = 0

\* The letters taken once candidate a is added, and once b is.
used_ijk(used, a_bitmap) == used \cup a_bitmap

used_ijkl_without_b(used, b_bitmap) == used

used_ijkl(used, b_bitmap) == used \cup b_bitmap

\* The bitmaps pushed along with the candidate indices.
BitmapsOf(indices) == [x \in 1..Len(indices) |-> At(word_bitmaps, indices[x])]

\* What a thread carries through steps that write its private variables only:
\* its candidate vector, whether it read a vector past its end, and the
\* candidate scans made so far.
Carry(cand, bad, seen) == [cand |-> cand, oob |-> bad, scans |-> seen]

Flag(cy, bad) == [cy EXCEPT !.oob = @ \/ bad]

\* Where the thread stops.
Stand(where, jj, aa, bb, cc, cy) ==
  [pc |-> where, j |-> jj, a |-> aa, b |-> bb, c |-> cc, cand |-> cy.cand,
   oob |-> cy.oob, scans |-> cy.scans]

\* The candidate scan for the disjoint pair (i, jj).
Scan(ii, jj, cy) ==
  LET used == used_ij(ii, jj)
      cand == Candidates(NumSections, used, jj)
      read == AllScanned(NumSections, used, jj)
  IN Carry(cand,
           cy.oob \/ \E x \in 1..Len(read) : ~InRange(word_bitmaps, read[x]),
           cy.scans \cup {[i |-> ii, j |-> jj, found |-> cand]})

\* The body of the parallel for, from a loop head on, as far as the thread gets
\* without entering the critical region: to the next triple (a, b, c) that
\* reaches the region, or to the end of the for over j.
RECURSIVE ForJ(_, _, _, _, _, _), ForA(_, _, _, _, _, _),
          ForB(_, _, _, _, _, _), ForC(_, _, _, _, _, _)

\* The head of the for over j: a word sharing a letter with word i is skipped,
\* a disjoint one has its candidates scanned, and fewer than three candidates
\* are passed over.
ForJ(ii, jj, aa, bb, cc, cy) ==
  IF ~MoreJ(jj) THEN Stand("get_i", jj, aa, bb, cc, cy)
  ELSE IF Shares(used_i(ii), At(word_bitmaps, jj))
  THEN ForJ(ii, jj + 1, aa, bb, cc, Flag(cy, ~InRange(word_bitmaps, jj)))
  ELSE LET After(cy2) == IF TooFew(Len(cy2.cand))
                         THEN ForJ(ii, jj + 1, aa, bb, cc, cy2)
                         ELSE ForA(ii, jj, 0, bb, cc, cy2)
       IN \* the scan is evaluated once, then the loops go on with its result
          CHOOSE to \in {After(cy2) : cy2 \in
                           {Scan(ii, jj, Flag(cy, ~InRange(word_bitmaps, jj)))}} :
            TRUE

\* The head of the for over a.
ForA(ii, jj, aa, bb, cc, cy) ==
  IF aa < Len(cy.cand)
  THEN ForB(ii, jj, aa, aa + 1, cc, Flag(cy, ~InRange(cy.cand, aa)))
  ELSE ForJ(ii, jj + 1, aa, bb, cc, cy)

\* The head of the for over b.
ForB(ii, jj, aa, bb, cc, cy) ==
  IF ~(bb < Len(cy.cand)) THEN ForA(ii, jj, aa + 1, bb, cc, cy)
  ELSE IF Shares(used_ijk(used_ij(ii, jj), At(BitmapsOf(cy.cand), aa)),
                 At(BitmapsOf(cy.cand), bb))
  THEN ForB(ii, jj, aa, bb + 1, cc, Flag(cy, ~InRange(cy.cand, bb)))
  ELSE ForC(ii, jj, aa, bb, bb + 1, Flag(cy, ~InRange(cy.cand, bb)))

\* The head of the for over c.
ForC(ii, jj, aa, bb, cc, cy) ==
  IF ~(cc < Len(cy.cand)) THEN ForB(ii, jj, aa, bb + 1, cc, cy)
  ELSE IF Shares(used_ijkl(used_ijk(used_ij(ii, jj),
                                    At(BitmapsOf(cy.cand), aa)),
                           At(BitmapsOf(cy.cand), bb)),
                 At(BitmapsOf(cy.cand), cc))
  THEN ForC(ii, jj, aa, bb, cc + 1, Flag(cy, ~InRange(cy.cand, cc)))
  ELSE Stand("critical", jj, aa, bb, cc, Flag(cy, ~InRange(cy.cand, cc)))

Unshared == <<shift_mode, nthreads, word_list, pos, letter_bitmaps,
              word_bitmaps_letters, unique_words_letters, number_of_words,
              word_bitmaps, unique_words, word_bitmaps_boundaries, phase, run,
              first_list, first_matches>>

\* The thread moves to where its private steps have taken it.
MoveTo(t, to) ==
  /\ pc' = [pc EXCEPT ![t] = to.pc]
  /\ j' = [j EXCEPT ![t] = to.j]
  /\ a' = [a EXCEPT ![t] = to.a]
  /\ b' = [b EXCEPT ![t] = to.b]
  /\ c' = [c EXCEPT ![t] = to.c]
  /\ candidate_indices' = [candidate_indices EXCEPT ![t] = to.cand]
  /\ candidate_bitmaps' = [candidate_bitmaps EXCEPT ![t] = BitmapsOf(to.cand)]
  /\ oob' = to.oob
  /\ scans' = to.scans

Here(t) == Carry(candidate_indices[t], oob, scans)

\* schedule(dynamic): the thread takes the next iteration i and runs it to
\* the first triple that reaches the critical region, or to its end; with no
\* iteration left the thread leaves the loop.
GetI(t) ==
  /\ phase = "search" /\ pc[t] = "get_i"
  /\ IF MoreWork(next_i)
     THEN /\ i' = [i EXCEPT ![t] = next_i]
          /\ next_i' = next_i + 1
          /\ \E to \in {ForJ(next_i, next_i + 1, a[t], b[t], c[t],
                            Flag(Here(t), ~InRange(word_bitmaps, next_i)))} :
               MoveTo(t, to)
     ELSE /\ pc' = [pc EXCEPT ![t] = "done"]
          /\ UNCHANGED <<i, j, a, b, c, next_i, candidate_bitmaps,
                         candidate_indices, oob, scans>>
  /\ UNCHANGED <<Unshared, matches, lock, match_indices>>

\* After a push: the fors go on with c + 1, to the next triple that reaches
\* the critical region, or to the end of the iteration.
LoopC(t) ==
  /\ phase = "search" /\ pc[t] = "loop_c"
  /\ \E to \in {ForC(i[t], j[t], a[t], b[t], c[t] + 1, Here(t))} :
       MoveTo(t, to)
  /\ UNCHANGED <<Unshared, matches, next_i, lock, i, match_indices>>

\* Entry to the omp critical region.
EnterCritical(t) ==
  /\ phase = "search" /\ pc[t] = "critical"
  /\ CriticalFree(lock)
  /\ lock' = t
  /\ pc' = [pc EXCEPT ![t] = "push"]
  /\ UNCHANGED <<Unshared, matches, next_i, i, j, a, b, c, candidate_bitmaps,
                 candidate_indices, match_indices, oob, scans>>

LockKept(t) == t

\* The owner of the critical region once thread t has left it.
LockReleased(t) == 0

\* The five indices of the match the thread is about to push.
MatchIndices(t) ==
  <<i[t], j[t], At(candidate_indices[t], a[t]), At(candidate_indices[t], b[t]),
    At(candidate_indices[t], c[t])>>

\* The five words pushed for five indices.
MatchWords(idx) == [x \in 1..5 |-> At(unique_words, idx[x])]

\* matches.push_back inside the critical region, and the exit from it.
Push(t) ==
  /\ phase = "search" /\ pc[t] = "push"
  /\ matches' = Append(matches, MatchWords(MatchIndices(t)))
  /\ match_indices' = Append(match_indices, [idx |-> MatchIndices(t), by |-> t])
  /\ oob' = (oob \/ \E x \in 1..5 : ~InRange(unique_words, MatchIndices(t)[x]))
  /\ lock' = LockReleased(t)
  /\ pc' = [pc EXCEPT ![t] = "loop_c"]
  /\ UNCHANGED <<Unshared, next_i, i, j, a, b, c, candidate_bitmaps,
                 candidate_indices, scans>>

\* The barrier at the end of the parallel for; main() goes on to print.
Finish ==
  /\ phase = "search"
  /\ \A t \in 1..nthreads : pc[t] = "done"
  /\ phase' = "done"
  /\ UNCHANGED <<shift_mode, nthreads, word_list, pos, letter_bitmaps,
                 word_bitmaps_letters, unique_words_letters, number_of_words,
                 word_bitmaps, unique_words, word_bitmaps_boundaries, matches,
                 next_i, lock, pc, i, j, a, b, c, candidate_bitmaps,
                 candidate_indices, match_indices, oob, scans, run, first_list,
                 first_matches>>

\* The program is run again on the same list with two of its words exchanged;
\* the list and the matches of the first run are kept for comparison.
Exchange(list, p, q) == [list EXCEPT ![p] = list[q], ![q] = list[p]]

Rerun ==
  /\ phase = "done" /\ run = 1
  /\ \E p \in 1..Len(word_list), q \in 1..Len(word_list) :
       /\ p < q
       /\ word_list' = Exchange(word_list, p, q)
  /\ first_list' = word_list
  /\ first_matches' = matches
  /\ run' = 2
  /\ pos' = 0
  /\ letter_bitmaps' = InitialLetterBitmaps(shift_mode)
  /\ word_bitmaps_letters' = EmptyLists
  /\ unique_words_letters' = EmptyLists
  /\ number_of_words' = 0
  /\ word_bitmaps' = <<>>
  /\ unique_words' = <<>>
  /\ word_bitmaps_boundaries' = <<>>
  /\ matches' = <<>>
  /\ phase' = "filter"
  /\ next_i' = 0
  /\ lock' = 0
  /\ pc' = [t \in 1..nthreads |-> "idle"]
  /\ i' = [t \in 1..nthreads |-> 0]
  /\ j' = [t \in 1..nthreads |-> 0]
  /\ a' = [t \in 1..nthreads |-> 0]
  /\ b' = [t \in 1..nthreads |-> 0]
  /\ c' = [t \in 1..nthreads |-> 0]
  /\ candidate_bitmaps' = [t \in 1..nthreads |-> <<>>]
  /\ candidate_indices' = [t \in 1..nthreads |-> <<>>]
  /\ match_indices' = <<>>
  /\ oob' = FALSE
  /\ scans' = {}
  /\ UNCHANGED <<shift_mode, nthreads>>

----------------------------------------------------------------------------
(* Specifications *)

\* The whole program on the sub-lists of Corpus.  No word of Corpus has a
\* character outside 'a'..'z', so no shift count is out of range and the
\* build's treatment of one plays no part.
Init ==
  \E list \in SearchLists, team \in 1..MaxThreads :
    Start(list, "wrap", team, 1, <<>>, <<>>)

Next ==
  \/ FilterWord \/ FilterDone \/ Combine \/ Finish
  \/ \E t \in 1..nthreads : GetI(t)
  \/ \E t \in 1..nthreads : LoopC(t)
  \/ \E t \in 1..nthreads : EnterCritical(t)
  \/ \E t \in 1..nthreads : Push(t)

Spec == Init /\ [][Next]_vars

\* The whole program on the leading parts of Corpus under fair scheduling:
\* while main() or a thread of the team has a step to take, one of them
\* takes a step.
FairLists == {SubSeq(Corpus, 1, k) : k \in 0..MaxFairWords}

InitFair ==
  \E list \in FairLists, team \in 1..MaxThreads :
    Start(list, "wrap", team, 1, <<>>, <<>>)

FairSpec == InitFair /\ [][Next]_vars /\ WF_vars(Next)

\* The program run once on a list and once more on the list with two words
\* exchanged, one thread each time.
InitPerm == \E list \in AnagramLists : Start(list, "wrap", 1, 1, <<>>, <<>>)

NextPerm == Next \/ Rerun

PermSpec == InitPerm /\ [][NextPerm]_vars

\* The partition pass alone on every short list over Dictionary.
InitPartition ==
  \E list \in SeqsUpTo(Dictionary, MaxWords), mode \in ShiftModes :
    Start(list, mode, 1, 1, <<>>, <<>>)

NextPartition == FilterWord \/ FilterDone \/ Combine

PartitionSpec == InitPartition /\ [][NextPartition]_vars

----------------------------------------------------------------------------
(* Properties *)

\* The number of entries of the flat index.
N == Len(word_bitmaps)

Mask(k) == word_bitmaps[k + 1]

\* The elements of a finite set of numbers in increasing order.
RECURSIVE Ascending(_)
Ascending(S) ==
  IF S = {} THEN <<>>
  ELSE LET least == CHOOSE x \in S : \A y \in S : x <= y
       IN <<least>> \o Ascending(S \ {least})

\* The tuples (i, j, k, l, m) with i < j < k < l < m < n whose five masks are
\* pairwise disjoint, found by looking at every set of five indices.
BruteForce ==
  {Ascending(S) : S \in {T \in SUBSET (0..(N - 1)) :
                           /\ Cardinality(T) = 5
                           /\ \A x, y \in T : x # y => Mask(x) \cap Mask(y) = {}}}

Emitted == {match_indices[k].idx : k \in 1..Len(match_indices)}

\* C1: when the search has finished, for any team and any interleaving, the
\* index 5-tuples of the emitted matches are exactly the brute-force set of
\* increasing 5-tuples of pairwise disjoint masks.
C1_ResultIsBruteForce == phase = "done" => Emitted = BruteForce

\* A finished search in which two threads each emitted a match, and a pair
\* was passed over for having fewer than three candidates.
C1_Witness ==
  /\ phase = "done"
  /\ \E k, m \in 1..Len(match_indices) : match_indices[k].by # match_indices[m].by
  /\ \E s \in scans : Len(s.found) < 3

LowerSet == {Lower[k] : k \in 1..26}

\* A word of five distinct lowercase letters.
WellFormed(word) ==
  /\ Len(word) = 5
  /\ \A p \in 1..Len(word) : word[p] \in LowerSet
  /\ \A p, q \in 1..Len(word) : p # q => word[p] # word[q]

\* C2: a word enters the corpus only if it has length 5 and its characters are
\* five distinct letters 'a'..'z'; any other word is discarded.
C2_OnlyWellFormedAdmitted ==
  /\ \A k \in 1..NumLists : \A x \in 1..Len(unique_words_letters[k]) :
       WellFormed(unique_words_letters[k][x])
  /\ \A x \in 1..Len(unique_words) : WellFormed(unique_words[x])

\* The letters of a well-formed word as bit positions.
LetterSet(word) == {Ord(word[p]) - 97 : p \in 1..Len(word)}

\* The bucket a word belongs to: that of its first pivot letter in the order
\* of letters, the last one when it has none.
PivotBucket(word) ==
  LET has(k) == \E p \in 1..Len(word) : word[p] = letters[k]
  IN IF \E k \in 1..Len(letters) : has(k)
     THEN CHOOSE k \in 1..Len(letters) : has(k) /\ \A m \in 1..(k - 1) : ~has(m)
     ELSE Len(letters) + 1

\* The masks of bucket k (1-based) of the flat index.
Section(k) ==
  {word_bitmaps[x] : x \in (word_bitmaps_boundaries[k] + 1)..word_bitmaps_boundaries[k + 1]}

\* C3: after the partition pass the mask of every well-formed word of the
\* list is in exactly one bucket of the index, the bucket of its first pivot
\* letter or else the catch-all, so that no admitted mask is lost.
C3_EveryWordInItsBucket ==
  phase = "search" =>
    \A p \in 1..Len(word_list) :
      WellFormed(word_list[p]) =>
        \A k \in 1..NumLists :
          LetterSet(word_list[p]) \in Section(k) <=> k = PivotBucket(word_list[p])

\* C4: in every state each match in the shared collection consists of five
\* index entries whose masks are pairwise disjoint, 25 bits in all.
C4_MatchesDisjoint ==
  /\ Len(matches) = Len(match_indices)
  /\ \A k \in 1..Len(matches) :
       LET idx == match_indices[k].idx
       IN /\ \A x \in 1..5 : idx[x] \in 0..(N - 1)
          /\ \A x, y \in 1..5 : x # y => Mask(idx[x]) \cap Mask(idx[y]) = {}
          /\ Cardinality(UNION {Mask(idx[x]) : x \in 1..5}) = 25
          /\ matches[k] = [x \in 1..5 |-> unique_words[idx[x] + 1]]
          /\ \A x \in 1..5 : Bitmap(matches[k][x], shift_mode) = Mask(idx[x])

\* A match found where a candidate had to be rejected in the for over c: the
\* candidate list of the pair held two words sharing a letter.
C4_Witness ==
  /\ Len(matches) >= 1
  /\ \E s \in scans : \E x, y \in 1..Len(s.found) :
       /\ x < y
       /\ Mask(s.found[x]) \cap Mask(s.found[y]) # {}
       /\ match_indices[1].idx[1] = s.i /\ match_indices[1].idx[2] = s.j

InCritical == {t \in 1..nthreads : pc[t] = "push"}

NoDuplicates(seq) == \A k, m \in 1..Len(seq) : k # m => seq[k] # seq[m]

IsPrefix(s, t) == Len(s) <= Len(t) /\ \A k \in 1..Len(s) : s[k] = t[k]

C5_State ==
  /\ Cardinality(InCritical) <= 1
  /\ InCritical = {t \in 1..nthreads : lock = t}
  /\ NoDuplicates([k \in 1..Len(match_indices) |-> match_indices[k].idx])
  /\ phase = "done" =>
       \A tuple \in BruteForce :
         Cardinality({k \in 1..Len(match_indices) : match_indices[k].idx = tuple}) = 1

\* C5: with any team and interleaving at most one thread is inside the
\* critical region, the collection only grows, one match per push, no tuple
\* is in it twice, and at the end every valid tuple is in it exactly once.
C5_ExactlyOnce ==
  [][/\ C5_State /\ C5_State'
     /\ IsPrefix(matches, matches') /\ IsPrefix(match_indices, match_indices')
     /\ Len(matches') <= Len(matches) + 1]_vars

\* One thread is inside the critical region while another waits to enter it.
C5_Witness == \E t, u \in 1..nthreads : pc[t] = "push" /\ pc[u] = "critical"

MaskOf(word) == Bitmap(word, shift_mode)

WordSets(ms) == {{ms[k][x] : x \in 1..5} : k \in 1..Len(ms)}

MaskSets(ms) == {{MaskOf(ms[k][x]) : x \in 1..5} : k \in 1..Len(ms)}

SecondRunDone == run = 2 /\ phase = "done"

\* C6 as stated: the run on a permutation of the list produces the same set
\* of matches, each match compared as its set of five words.
C6_SameWordSets == SecondRunDone => WordSets(matches) = WordSets(first_matches)

\* C6 amended: the run on a permutation of the list produces the same set of
\* matches, each match compared as its set of five letter masks.
C6_SameMaskSets == SecondRunDone => MaskSets(matches) = MaskSets(first_matches)

\* Both runs found matches, and the exchange of two words changed the order
\* of the index.
C6_Witness ==
  /\ SecondRunDone /\ Len(matches) >= 2
  /\ first_list # word_list
  /\ \E k \in 1..Len(matches) : matches[k] # first_matches[k]

StrictlyIncreasing(seq) == \A x, y \in 1..Len(seq) : x < y => seq[x] < seq[y]

\* C7: the five index positions of every emitted match are strictly
\* increasing, and every candidate list built for a pair (i, j) is strictly
\* increasing and holds only indices greater than j.
C7_IndicesIncrease ==
  /\ \A k \in 1..Len(match_indices) : StrictlyIncreasing(match_indices[k].idx)
  /\ \A s \in scans :
       /\ s.i < s.j
       /\ StrictlyIncreasing(s.found)
       /\ \A x \in 1..Len(s.found) : s.found[x] > s.j
  /\ \A t \in 1..nthreads :
       pc[t] \in {"critical", "push", "loop_c"} =>
         /\ a[t] < b[t] /\ b[t] < c[t] /\ c[t] < Len(candidate_indices[t])
         /\ [i |-> i[t], j |-> j[t], found |-> candidate_indices[t]] \in scans

\* A match is in the collection, and a candidate list was built for a pair
\* (i, j) that has a disjoint entry before j: the scan left it out.
C7_Witness ==
  /\ Len(match_indices) >= 1
  /\ \E s \in scans :
       /\ Len(s.found) >= 1
       /\ \E m \in 0..(s.j - 1) :
            m # s.i /\ Mask(m) \cap (Mask(s.i) \cup Mask(s.j)) = {}

\* The first position of the list with a word of length 5 of this mask.
FirstPos(mask) ==
  CHOOSE p \in 1..Len(word_list) :
    /\ Len(word_list[p]) = 5 /\ MaskOf(word_list[p]) = mask
    /\ \A q \in 1..(p - 1) : ~(Len(word_list[q]) = 5 /\ MaskOf(word_list[q]) = mask)

\* C8: after the partition pass no two entries of the flat index have the
\* same mask, the word stored with a mask is the first word of the list with
\* that mask, and the entries of a bucket are in first-seen order.
C8_FirstSeenUnique ==
  phase = "search" =>
    /\ Len(unique_words) = N
    /\ \A x, y \in 1..N : x # y => word_bitmaps[x] # word_bitmaps[y]
    /\ \A x \in 1..N :
         /\ \E p \in 1..Len(word_list) :
              Len(word_list[p]) = 5 /\ MaskOf(word_list[p]) = word_bitmaps[x]
         /\ unique_words[x] = word_list[FirstPos(word_bitmaps[x])]
    /\ \A k \in 1..NumLists :
         \A x, y \in (word_bitmaps_boundaries[k] + 1)..word_bitmaps_boundaries[k + 1] :
           x < y => FirstPos(word_bitmaps[x]) < FirstPos(word_bitmaps[y])

\* The list held two words of one mask and two words of one bucket with
\* different masks, the later bucket-mate first in the list.
C8_Witness ==
  /\ phase = "search"
  /\ \E p, q \in 1..Len(word_list) :
       /\ p < q /\ word_list[p] # word_list[q]
       /\ Len(word_list[p]) = 5 /\ Len(word_list[q]) = 5
       /\ MaskOf(word_list[p]) = MaskOf(word_list[q])
       /\ MaskOf(word_list[p]) \in {word_bitmaps[x] : x \in 1..N}
  /\ \E k \in 1..NumLists :
       word_bitmaps_boundaries[k + 1] - word_bitmaps_boundaries[k] >= 2

\* The indices k > j whose mask is disjoint from those of i and j, in order.
DisjointAfter(ii, jj) ==
  SelectSeq([x \in 1..(N - jj - 1) |-> jj + x],
            LAMBDA k : Mask(k) \cap (Mask(ii) \cup Mask(jj)) = {})

DisjointPairs ==
  {<<x, y>> \in (0..(N - 1)) \X (0..(N - 1)) : x < y /\ Mask(x) \cap Mask(y) = {}}

\* C9: the candidate list built for a disjoint pair (i, j) is exactly the
\* indices k > j with mask[k] disjoint from mask[i] | mask[j], in increasing
\* order; a list is built for no other pair, and by the end for every such pair.
C9_CandidatesExact ==
  /\ \A s \in scans :
       /\ <<s.i, s.j>> \in DisjointPairs
       /\ s.found = DisjointAfter(s.i, s.j)
  /\ phase = "done" => {<<s.i, s.j>> : s \in scans} = DisjointPairs

\* A scan that skipped the section of a used pivot letter holding a later
\* entry, and took a candidate from the catch-all section.
C9_Witness ==
  \E s \in scans :
    /\ \E k \in 1..(NumLists - 1) :
         /\ letter_bitmaps[k] \cap (Mask(s.i) \cup Mask(s.j)) # {}
         /\ word_bitmaps_boundaries[k + 1] - 1 > s.j
         /\ word_bitmaps_boundaries[k + 1] > word_bitmaps_boundaries[k]
    /\ \E x \in 1..Len(s.found) : s.found[x] >= word_bitmaps_boundaries[NumLists]

Terminated ==
  /\ phase = "done"
  /\ \A t \in 1..nthreads : pc[t] = "done"
  /\ lock = 0
  /\ next_i = number_of_words
  /\ number_of_words = N
  /\ N < 5 => matches = <<>> /\ ~oob

====
